---------------------------- MODULE Spec2Model ----------------------------
(***************************************************************************)
(* Model of scraper.py: main() (argument validation, feed gathering, the   *)
(* staged crawl loop with one ThreadPoolExecutor per depth) and the worker *)
(* function scrape_and_process().                                          *)
(*                                                                         *)
(* The web is an environment: every URL answers the same way for the whole *)
(* run; its answer is drawn the first time the URL is fetched and kept in  *)
(* `web`.                                                                  *)
(***************************************************************************)
EXTENDS Integers, Sequences, FiniteSets, TLC

(***************************************************************************)
(* Bounds of the model.                                                    *)
(***************************************************************************)
\* largest value given to --max-depth
MaxDepthArg == 2
\* largest value given to --workers
MaxWorkers == 2
\* largest number of <a href> in the content area of one page
MaxAnchors == 1
\* largest number of attachment sections on one page
MaxAttach == 1

(***************************************************************************)
(* The URLs of the model.  A URL is named by a string; what urlparse()     *)
(* returns for it is given by Scheme, Netloc, Path and Fragment.  A netloc *)
(* and a path are sequences of pieces whose concatenation is the text, so  *)
(* str.endswith() is a test on the last pieces.                            *)
(***************************************************************************)
None == "None"

PageUrls == {"a1", "b1", "x1"}

PdfUrls == {"d1"}

\* an office file (.docx)
OfficeUrls == {"w1"}

\* a .pdf path followed by a query string
QueryUrls == {"q1"}

Urls == PageUrls \cup PdfUrls \cup OfficeUrls \cup QueryUrls

Scheme(u) == "https"

Netloc(u) ==
    CASE u \in {"a1", "d1", "w1", "q1"} -> <<"www", ".", "gov", ".", "uk">>
      [] u \in {"b1"} -> <<"assets", ".", "gov", ".", "uk">>
      [] OTHER -> <<"example", ".", "com">>

Path(u) ==
    CASE u \in PdfUrls \cup QueryUrls -> <<"/", u, ".", "pdf">>
      [] u \in OfficeUrls -> <<"/", u, ".", "docx">>
      [] OTHER -> <<"/", u>>

\* the query string of the URL, with its "?"
Query(u) == IF u \in QueryUrls THEN <<"?", "v", "=", "1">> ELSE <<>>

Fragment(u) == ""

\* str.endswith(suffix) on a text given as pieces
EndsWith(text, suffix) ==
    /\ Len(text) >= Len(suffix)
    /\ SubSeq(text, Len(text) - Len(suffix) + 1, Len(text)) = suffix

\* absolute_url.lower().endswith(ext): the text of the URL ends with its path,
\* or with its query string when it has one
UrlEndsWith(u, ext) == EndsWith(Path(u) \o Query(u), <<".", ext>>)

NonHtmlExtensions ==
    {"pdf", "zip", "doc", "docx", "xls", "xlsx", "ppt", "pptx", "csv", "json",
     "xml", "atom", "rss"}

(***************************************************************************)
(* The command line.                                                       *)
(***************************************************************************)
SeedUrls == {"a1", "b1"}

FeedUrls == {"f1", "f2"}

\* --feed-file: not given ("absent"), or what open(args.feed_file) gives: the
\* file is missing, unreadable, or has these lines
FeedFiles ==
    { [state |-> "absent", lines |-> <<>>],
      [state |-> "missing", lines |-> <<>>],
      [state |-> "unreadable", lines |-> <<>>],
      [state |-> "ok", lines |-> <<"#c", "">>],
      [state |-> "ok", lines |-> <<"f1", "#c", "f2">>] }

ArgSets ==
    [ urls : SUBSET SeedUrls,
      feed_url : {None, "f1"},
      feed_file : FeedFiles,
      crawl : BOOLEAN,
      max_depth : 0..MaxDepthArg,
      same_domain : BOOLEAN,
      workers : 1..MaxWorkers ]

\* add_mutually_exclusive_group: at most one of URL..., --feed-url, --feed-file
Given(a) ==
    (IF a.urls # {} THEN 1 ELSE 0) + (IF a.feed_url # None THEN 1 ELSE 0)
        + (IF a.feed_file.state # "absent" THEN 1 ELSE 0)

(***************************************************************************)
(* What a URL answers.                                                     *)
(***************************************************************************)
AnchorSets == {S \in SUBSET (PageUrls \cup QueryUrls) : Cardinality(S) <= MaxAnchors}

AttachSets == {S \in SUBSET (PdfUrls \cup OfficeUrls \cup QueryUrls) :
        Cardinality(S) <= MaxAttach}

\* a page: fetched, extracted and saved ("ok"); fetched and extracted, but the
\* output file cannot be written; not fetched; or an exception in the task
PageResponses ==
    [status : {"ok"}, anchors : AnchorSets, attachments : AttachSets]
        \cup [status : {"write_error"}, anchors : {{}}, attachments : AttachSets]
        \cup [status : {"fetch_error", "exception"}, anchors : {{}}, attachments : {{}}]

\* an office file fetched as a page is not HTML: BeautifulSoup finds no body in
\* it ("Could not extract any content"), when it is fetched at all
OfficeResponses ==
    [status : {"fetch_error", "no_content"}, anchors : {{}}, attachments : {{}}]

\* what scrape_content() can meet at a URL
ScrapeResponses(u) == IF u \in OfficeUrls THEN OfficeResponses ELSE PageResponses

\* a binary file: downloaded and saved, or not
PdfResponses == [status : {"ok", "fetch_error"}, anchors : {{}}, attachments : {{}}]

Unknown == [status |-> "unknown", anchors |-> {}, attachments |-> {}]

\* what parse_feed() returns for a feed: no entry, or the entries of an article
FeedAnswers == {{}, {"a1"}}

VARIABLES
    args,                           \* the parsed command line
    pc,                             \* where main() is
    exit_status,                    \* -1 while the process runs
    feed_urls_to_parse,
    feed_done,                      \* feed futures that have completed
    urls_from_all_feeds,
    initial_urls_to_scrape,
    processed_urls,
    scrape_results,
    processed_urls_lock,            \* "free" or the URL of the worker holding it
    urls_to_process_this_depth,
    current_depth,
    successfully_scraped_this_depth,
    task,                           \* the futures of the running executor
    web,                            \* what each URL answered
    submitted,                      \* history: <<url, depth>> given to executor.submit
    outcomes,                       \* history: what each task returned
    feeds_submitted,                \* history: number of parse_feed tasks submitted
    config_error                    \* history: the run ended on a configuration error

vars ==
    <<args, pc, exit_status, feed_urls_to_parse, feed_done, urls_from_all_feeds,
      initial_urls_to_scrape, processed_urls, scrape_results, processed_urls_lock,
      urls_to_process_this_depth, current_depth, successfully_scraped_this_depth,
      task, web, submitted, outcomes, feeds_submitted, config_error>>

crawlVars ==
    <<processed_urls, scrape_results, processed_urls_lock, urls_to_process_this_depth,
      current_depth, successfully_scraped_this_depth, task, web, submitted, outcomes>>

feedVars == <<feed_urls_to_parse, feed_done, urls_from_all_feeds, feeds_submitted>>

Init ==
    /\ args \in ArgSets
    /\ pc = "parse_args"
    /\ exit_status = -1
    /\ feed_urls_to_parse = <<>>
    /\ feed_done = {}
    /\ urls_from_all_feeds = {}
    /\ initial_urls_to_scrape = {}
    /\ processed_urls = {}
    /\ scrape_results = [u \in {} |-> Unknown]
    /\ processed_urls_lock = "free"
    /\ urls_to_process_this_depth = {}
    /\ current_depth = 0
    /\ successfully_scraped_this_depth = {}
    /\ task = [u \in {} |-> "queued"]
    /\ web = [u \in Urls |-> Unknown]
    /\ submitted = {}
    /\ outcomes = {}
    /\ feeds_submitted = 0
    /\ config_error = FALSE

(***************************************************************************)
(* main(): the command line and the feeds.                                 *)
(***************************************************************************)
\* parse_args() and the input validation: parser.error() ends the process
\* with status 2
ParseArgsError ==
    /\ pc = "parse_args"
    /\ Given(args) # 1
    /\ pc' = "done"
    /\ exit_status' = 2
    /\ config_error' = TRUE
    /\ UNCHANGED <<args, initial_urls_to_scrape, feedVars, crawlVars>>

ParseArgsOk ==
    /\ pc = "parse_args"
    /\ Given(args) = 1
    /\ pc' = "gather_feeds"
    /\ UNCHANGED <<args, exit_status, config_error, initial_urls_to_scrape, feedVars,
                   crawlVars>>

\* [line.strip() for line in f if line.strip() and not line.strip().startswith('#')]
RECURSIVE FeedLines(_)
FeedLines(lines) ==
    IF lines = <<>> THEN <<>>
    ELSE IF Head(lines) = "" \/ Head(lines) = "#c" THEN FeedLines(Tail(lines))
    ELSE <<Head(lines)>> \o FeedLines(Tail(lines))

GatherFeedUrl ==
    /\ pc = "gather_feeds"
    /\ args.feed_url # None
    /\ feed_urls_to_parse' = <<args.feed_url>>
    /\ pc' = "parse_feeds"
    /\ UNCHANGED <<args, exit_status, config_error, initial_urls_to_scrape, feed_done,
                   urls_from_all_feeds, feeds_submitted, crawlVars>>

GatherFeedFile ==
    /\ pc = "gather_feeds"
    /\ args.feed_url = None
    /\ args.feed_file.state = "ok"
    /\ feed_urls_to_parse' = FeedLines(args.feed_file.lines)
    /\ pc' = "parse_feeds"
    /\ UNCHANGED <<args, exit_status, config_error, initial_urls_to_scrape, feed_done,
                   urls_from_all_feeds, feeds_submitted, crawlVars>>

\* mutant: the except branch logs the error and does not return; the feeds
\* read before the error are parsed
GatherFeedFileErrorNoReturn ==
    /\ pc = "gather_feeds"
    /\ args.feed_url = None
    /\ args.feed_file.state \in {"missing", "unreadable"}
    /\ feed_urls_to_parse' = <<"f1">>
    /\ pc' = "parse_feeds"
    /\ config_error' = TRUE
    /\ UNCHANGED <<args, exit_status, initial_urls_to_scrape, feed_done,
                   urls_from_all_feeds, feeds_submitted, crawlVars>>

\* except FileNotFoundError / except Exception: log and return from main()
GatherFeedFileError ==
    /\ pc = "gather_feeds"
    /\ args.feed_url = None
    /\ args.feed_file.state \in {"missing", "unreadable"}
    /\ pc' = "done"
    /\ exit_status' = 0
    /\ config_error' = TRUE
    /\ UNCHANGED <<args, initial_urls_to_scrape, feedVars, crawlVars>>

GatherNoFeed ==
    /\ pc = "gather_feeds"
    /\ args.feed_url = None
    /\ args.feed_file.state = "absent"
    /\ pc' = "parse_feeds"
    /\ UNCHANGED <<args, exit_status, config_error, initial_urls_to_scrape, feedVars,
                   crawlVars>>

\* executor.submit(parse_feed, feed_url) for every feed
SubmitFeeds ==
    /\ pc = "parse_feeds"
    /\ feed_urls_to_parse # <<>>
    /\ feeds_submitted' = Len(feed_urls_to_parse)
    /\ pc' = "feeds_wait"
    /\ UNCHANGED <<args, exit_status, config_error, initial_urls_to_scrape,
                   feed_urls_to_parse, feed_done, urls_from_all_feeds, crawlVars>>

\* one parse_feed task completes and as_completed() hands its result over
ParseFeed(i, answer) ==
    /\ pc = "feeds_wait"
    /\ i \in 1..Len(feed_urls_to_parse)
    /\ i \notin feed_done
    /\ feed_done' = feed_done \cup {i}
    /\ urls_from_all_feeds' = urls_from_all_feeds \cup answer
    /\ UNCHANGED <<args, pc, exit_status, config_error, initial_urls_to_scrape,
                   feed_urls_to_parse, feeds_submitted, crawlVars>>

\* the executor of the feeds is left: every feed future is done
FeedsJoined ==
    /\ pc = "feeds_wait"
    /\ feed_done = 1..Len(feed_urls_to_parse)
    /\ initial_urls_to_scrape' = args.urls \cup urls_from_all_feeds
    /\ pc' = "setup"
    /\ UNCHANGED <<args, exit_status, config_error, feedVars, crawlVars>>

NoFeeds ==
    /\ pc = "parse_feeds"
    /\ feed_urls_to_parse = <<>>
    /\ initial_urls_to_scrape' = args.urls
    /\ pc' = "setup"
    /\ UNCHANGED <<args, exit_status, config_error, feedVars, crawlVars>>


(***************************************************************************)
(* The pure functions of the crawl.                                        *)
(***************************************************************************)
\* effective_max_depth = args.max_depth if args.crawl else 0
EffectiveMaxDepth(a) == IF a.crawl THEN a.max_depth ELSE 0

\* mutant: no URL is taken for a PDF, every task is processed as HTML
IsPdfNever(u) == FALSE

\* parsed_target_url.path.lower().endswith('.pdf')
IsPdf(u) == EndsWith(Path(u), <<".", "pdf">>)

\* scrape_content(): the document URLs of the attachment sections
DocumentUrls(r) == {l \in r.attachments : Scheme(l) \in {"http", "https"}}

\* find_sub_links(base_url, content_area)
find_sub_links(base_url, content_area) ==
    {l \in content_area :
        /\ Scheme(l) \in {"http", "https"}
        /\ EndsWith(Netloc(l), <<"gov", ".", "uk">>)
        /\ Fragment(l) = ""
        /\ ~ \E ext \in NonHtmlExtensions : UrlEndsWith(l, ext)}

\* links_from_this_parent: the document URLs, and the sub-links when crawling
LinksFromParent(parent_url) ==
    IF parent_url \in DOMAIN scrape_results
    THEN LET result_tuple == scrape_results[parent_url]
         IN  result_tuple.document_urls
                \cup (IF args.crawl
                      THEN find_sub_links(parent_url, result_tuple.content_area)
                      ELSE {})
    ELSE {}

\* mutant: --same-domain is not applied
DomainAllowsAny(link, parent_url) == TRUE

\* mutant: --same-domain is applied to the sub-links only, the document links
\* of the attachment sections are kept whatever their host
DomainAllowsDocuments(link, parent_url) ==
    args.same_domain =>
        (Netloc(link) = Netloc(parent_url) \/ link \in web[parent_url].attachments)

\* the --same-domain restriction on one link of one parent
DomainAllows(link, parent_url) ==
    args.same_domain => Netloc(link) = Netloc(parent_url)

\* next_urls_to_process after the loop over successfully_scraped_this_depth
NextUrlsToProcess ==
    {link \in Urls :
        \E parent_url \in successfully_scraped_this_depth :
            /\ link \in LinksFromParent(parent_url)
            /\ DomainAllows(link, parent_url)
            /\ link \notin processed_urls}

\* list(S): the elements of a set, in some order
RECURSIVE ListOf(_)
ListOf(S) ==
    IF S = {} THEN <<>>
    ELSE LET x == CHOOSE y \in S : TRUE
         IN  <<x>> \o ListOf(S \ {x})

\* set(l): the elements of a list
SetOf(l) == {l[i] : i \in DOMAIN l}

\* links_from_this_parent as the list it is: extend(extracted_document_urls),
\* then extend(sub_links) when crawling
LinksFromParentList(parent_url) ==
    IF parent_url \in DOMAIN scrape_results
    THEN LET result_tuple == scrape_results[parent_url]
         IN  ListOf(result_tuple.document_urls)
                \o (IF args.crawl
                    THEN ListOf(find_sub_links(parent_url, result_tuple.content_area))
                    ELSE <<>>)
    ELSE <<>>

\* mutant: a link is added to the next batch without the test that it is
\* already there
AddLinkNoTest(next, link, parent_url) ==
    IF DomainAllows(link, parent_url) /\ link \notin processed_urls
    THEN Append(next, link)
    ELSE next

\* the body of the loop over the links of one parent: the --same-domain test,
\* then, under the lock, "if link not in processed_urls" and
\* "if link not in next_urls_to_process: next_urls_to_process.add(link)"
AddLink(next, link, parent_url) ==
    IF /\ DomainAllows(link, parent_url)
       /\ link \notin processed_urls
       /\ link \notin SetOf(next)
    THEN Append(next, link)
    ELSE next

\* for link in set(links_from_this_parent)
RECURSIVE AddLinks(_, _, _)
AddLinks(next, links, parent_url) ==
    IF links = <<>> THEN next
    ELSE AddLinks(AddLink(next, Head(links), parent_url), Tail(links), parent_url)

\* for parent_url in successfully_scraped_this_depth
RECURSIVE AddParents(_, _)
AddParents(next, parents) ==
    IF parents = <<>> THEN next
    ELSE AddParents(
             AddLinks(next, ListOf(SetOf(LinksFromParentList(Head(parents)))),
                      Head(parents)),
             Tail(parents))

\* list(next_urls_to_process): the batch of the next depth, one element for
\* each executor.submit
NextUrlsList == AddParents(<<>>, ListOf(successfully_scraped_this_depth))

\* mutant: the depth test lets one more depth through
LoopConditionOneMore ==
    /\ urls_to_process_this_depth # {}
    /\ current_depth <= EffectiveMaxDepth(args) + 1

\* mutant: the depth test is strict
LoopConditionStrict ==
    /\ urls_to_process_this_depth # {}
    /\ current_depth < EffectiveMaxDepth(args)

\* while urls_to_process_this_depth and current_depth <= effective_max_depth
LoopCondition ==
    /\ urls_to_process_this_depth # {}
    /\ current_depth <= EffectiveMaxDepth(args)

\* the total of the final log line: len(processed_urls)
SummaryTotal == Cardinality(processed_urls)

(***************************************************************************)
(* main(): the staged crawl.                                               *)
(***************************************************************************)
mainVars == <<args, config_error, initial_urls_to_scrape, feedVars>>

Setup ==
    /\ pc = "setup"
    /\ processed_urls' = {}
    /\ scrape_results' = [u \in {} |-> Unknown]
    /\ processed_urls_lock' = "free"
    /\ urls_to_process_this_depth' = initial_urls_to_scrape
    /\ current_depth' = 0
    /\ pc' = "loop_test"
    /\ UNCHANGED <<mainVars, exit_status, successfully_scraped_this_depth, task, web,
                   submitted, outcomes>>

\* the loop is entered: one executor.submit per URL of this depth
SubmitDepth ==
    /\ pc = "loop_test"
    /\ LoopCondition
    /\ task' = [u \in urls_to_process_this_depth |-> "queued"]
    /\ submitted' = submitted \cup {<<u, current_depth>> : u \in urls_to_process_this_depth}
    /\ successfully_scraped_this_depth' = {}
    /\ pc' = "pool"
    /\ UNCHANGED <<mainVars, exit_status, processed_urls, scrape_results,
                   processed_urls_lock, urls_to_process_this_depth, current_depth, web,
                   outcomes>>

\* the loop is left: the final log line, main() returns
LoopExit ==
    /\ pc = "loop_test"
    /\ ~ LoopCondition
    /\ pc' = "done"
    /\ exit_status' = 0
    /\ UNCHANGED <<mainVars, crawlVars>>

Running == {u \in DOMAIN task : task[u] \in {"io", "want_lock", "locked"}}

\* mutant: the pool starts a thread for every future, whatever max_workers
TaskStartUnbounded(u) ==
    /\ pc = "pool"
    /\ u \in DOMAIN task
    /\ task[u] = "queued"
    /\ task' = [task EXCEPT ![u] = "io"]
    /\ UNCHANGED <<mainVars, pc, exit_status, processed_urls, scrape_results,
                   processed_urls_lock, urls_to_process_this_depth, current_depth,
                   successfully_scraped_this_depth, web, submitted, outcomes>>

\* mutant: the task takes processed_urls_lock when it starts and does its I/O
\* with the lock held
TaskStartLocked(u) ==
    /\ pc = "pool"
    /\ u \in DOMAIN task
    /\ task[u] = "queued"
    /\ Cardinality(Running) < args.workers
    /\ processed_urls_lock = "free"
    /\ processed_urls_lock' = u
    /\ task' = [task EXCEPT ![u] = "io"]
    /\ UNCHANGED <<mainVars, pc, exit_status, processed_urls, scrape_results,
                   urls_to_process_this_depth, current_depth,
                   successfully_scraped_this_depth, web, submitted, outcomes>>

\* a worker thread of the pool takes a queued future
TaskStart(u) ==
    /\ pc = "pool"
    /\ u \in DOMAIN task
    /\ task[u] = "queued"
    /\ Cardinality(Running) < args.workers
    /\ task' = [task EXCEPT ![u] = "io"]
    /\ UNCHANGED <<mainVars, pc, exit_status, processed_urls, scrape_results,
                   processed_urls_lock, urls_to_process_this_depth, current_depth,
                   successfully_scraped_this_depth, web, submitted, outcomes>>

Outcome(u, kind, status) ==
    [url |-> u, depth |-> current_depth, kind |-> kind, status |-> status]

\* scrape_and_process() of a .pdf URL: download_binary_file(), and the result
\* as as_completed() hands it to main().  (main() appends the results to a list
\* that only it reads, and only after the executor is left: its order has no
\* effect, and the list is a set here.)
TaskDownload(u, r) ==
    /\ pc = "pool"
    /\ u \in DOMAIN task
    /\ task[u] = "io"
    /\ IsPdf(u)
    /\ r \in PdfResponses
    /\ web[u] \in {Unknown, r}
    /\ web' = [web EXCEPT ![u] = r]
    /\ task' = [task EXCEPT ![u] = "done"]
    /\ IF r.status = "ok"
       THEN /\ successfully_scraped_this_depth' = successfully_scraped_this_depth \cup {u}
            /\ outcomes' = outcomes \cup {Outcome(u, "Document", "Success")}
       ELSE /\ UNCHANGED successfully_scraped_this_depth
            /\ outcomes' = outcomes \cup {Outcome(u, "Document", "Failed")}
    /\ UNCHANGED <<mainVars, pc, exit_status, processed_urls, scrape_results,
                   processed_urls_lock, urls_to_process_this_depth, current_depth,
                   submitted>>

\* mutant: a task that fails ends the run instead of returning None
TaskScrapeAborts(u, r) ==
    /\ pc = "pool"
    /\ u \in DOMAIN task
    /\ task[u] = "io"
    /\ ~ IsPdf(u)
    /\ r \in ScrapeResponses(u)
    /\ web[u] \in {Unknown, r}
    /\ web' = [web EXCEPT ![u] = r]
    /\ IF r.status = "ok"
       THEN /\ task' = [task EXCEPT ![u] = "want_lock"]
            /\ UNCHANGED <<outcomes, pc, exit_status>>
       ELSE /\ task' = [task EXCEPT ![u] = "done"]
            /\ outcomes' = outcomes \cup {Outcome(u, "Page", "Failed")}
            /\ pc' = "done"
            /\ exit_status' = 1
    /\ UNCHANGED <<mainVars, processed_urls, scrape_results,
                   processed_urls_lock, urls_to_process_this_depth, current_depth,
                   successfully_scraped_this_depth, submitted>>

\* scrape_and_process() of any other URL: scrape_content() with the lock not
\* held; without content the task returns None
TaskScrape(u, r) ==
    /\ pc = "pool"
    /\ u \in DOMAIN task
    /\ task[u] = "io"
    /\ ~ IsPdf(u)
    /\ r \in ScrapeResponses(u)
    /\ web[u] \in {Unknown, r}
    /\ web' = [web EXCEPT ![u] = r]
    /\ IF r.status = "ok"
       THEN /\ task' = [task EXCEPT ![u] = "want_lock"]
            /\ UNCHANGED outcomes
       ELSE /\ task' = [task EXCEPT ![u] = "done"]
            /\ outcomes' = outcomes \cup {Outcome(u, "Page", "Failed")}
    /\ UNCHANGED <<mainVars, pc, exit_status, processed_urls, scrape_results,
                   processed_urls_lock, urls_to_process_this_depth, current_depth,
                   successfully_scraped_this_depth, submitted>>

\* mutant: scrape_results[url] is assigned without taking processed_urls_lock
TaskStoreUnlocked(u) ==
    /\ pc = "pool"
    /\ u \in DOMAIN task
    /\ task[u] = "want_lock"
    /\ scrape_results' =
          [v \in DOMAIN scrape_results \cup {u} |->
              IF v = u
              THEN [content_area |-> web[u].anchors,
                    document_urls |-> DocumentUrls(web[u])]
              ELSE scrape_results[v]]
    /\ task' = [task EXCEPT ![u] = "locked"]
    /\ UNCHANGED <<mainVars, pc, exit_status, processed_urls, processed_urls_lock,
                   urls_to_process_this_depth, current_depth,
                   successfully_scraped_this_depth, web, submitted, outcomes>>

\* with processed_urls_lock: scrape_results[url] = (content_area, document_urls)
TaskStore(u) ==
    /\ pc = "pool"
    /\ u \in DOMAIN task
    /\ task[u] = "want_lock"
    /\ processed_urls_lock = "free"
    /\ processed_urls_lock' = u
    /\ scrape_results' =
          [v \in DOMAIN scrape_results \cup {u} |->
              IF v = u
              THEN [content_area |-> web[u].anchors,
                    document_urls |-> DocumentUrls(web[u])]
              ELSE scrape_results[v]]
    /\ task' = [task EXCEPT ![u] = "locked"]
    /\ UNCHANGED <<mainVars, pc, exit_status, processed_urls,
                   urls_to_process_this_depth, current_depth,
                   successfully_scraped_this_depth, web, submitted, outcomes>>

\* mutant: main() keeps only the result of the future that completed last
TaskReturnKeepsLast(u) ==
    /\ pc = "pool"
    /\ u \in DOMAIN task
    /\ task[u] = "locked"
    /\ processed_urls_lock' = "free"
    /\ task' = [task EXCEPT ![u] = "done"]
    /\ successfully_scraped_this_depth' = {u}
    /\ outcomes' = outcomes \cup {Outcome(u, "Page", "Success")}
    /\ UNCHANGED <<mainVars, pc, exit_status, processed_urls, scrape_results,
                   urls_to_process_this_depth, current_depth, web, submitted>>

\* the with block is left, the task returns url, as_completed() hands it over
TaskReturn(u) ==
    /\ pc = "pool"
    /\ u \in DOMAIN task
    /\ task[u] = "locked"
    /\ processed_urls_lock' = "free"
    /\ task' = [task EXCEPT ![u] = "done"]
    /\ successfully_scraped_this_depth' = successfully_scraped_this_depth \cup {u}
    /\ outcomes' = outcomes \cup {Outcome(u, "Page", "Success")}
    /\ UNCHANGED <<mainVars, pc, exit_status, processed_urls, scrape_results,
                   urls_to_process_this_depth, current_depth, web, submitted>>

\* mutant: the executor is left without waiting for its futures
PoolJoinedNoWait ==
    /\ pc = "pool"
    /\ pc' = "find_links"
    /\ UNCHANGED <<mainVars, exit_status, crawlVars>>

\* mutant: the executor is left as soon as one future is done
PoolJoinedFirstCompleted ==
    /\ pc = "pool"
    /\ \E u \in DOMAIN task : task[u] = "done"
    /\ pc' = "find_links"
    /\ UNCHANGED <<mainVars, exit_status, crawlVars>>

\* the with block of the executor is left: shutdown(wait=True)
PoolJoined ==
    /\ pc = "pool"
    /\ \A u \in DOMAIN task : task[u] = "done"
    /\ pc' = "find_links"
    /\ UNCHANGED <<mainVars, exit_status, crawlVars>>

\* the links of the next depth; none: break, the final log line, return
FindLinksNone ==
    /\ pc = "find_links"
    /\ NextUrlsToProcess = {}
    /\ pc' = "done"
    /\ exit_status' = 0
    /\ UNCHANGED <<mainVars, crawlVars>>

\* mutant: current_depth is not incremented
FindLinksSomeSameDepth ==
    /\ pc = "find_links"
    /\ NextUrlsToProcess # {}
    /\ urls_to_process_this_depth' = NextUrlsToProcess
    /\ scrape_results' = [u \in {} |-> Unknown]
    /\ pc' = "loop_test"
    /\ UNCHANGED <<mainVars, exit_status, processed_urls, processed_urls_lock,
                   current_depth, successfully_scraped_this_depth, task, web, submitted,
                   outcomes>>

\* the links of the next depth become the batch of the next iteration
FindLinksSome ==
    /\ pc = "find_links"
    /\ NextUrlsToProcess # {}
    /\ urls_to_process_this_depth' = NextUrlsToProcess
    /\ current_depth' = current_depth + 1
    /\ scrape_results' = [u \in {} |-> Unknown]
    /\ pc' = "loop_test"
    /\ UNCHANGED <<mainVars, exit_status, processed_urls, processed_urls_lock,
                   successfully_scraped_this_depth, task, web, submitted, outcomes>>

Next ==
    \/ ParseArgsError
    \/ ParseArgsOk
    \/ GatherFeedUrl
    \/ GatherFeedFile
    \/ GatherFeedFileError
    \/ GatherNoFeed
    \/ SubmitFeeds
    \/ \E i \in DOMAIN feed_urls_to_parse, answer \in FeedAnswers : ParseFeed(i, answer)
    \/ FeedsJoined
    \/ NoFeeds
    \/ Setup
    \/ SubmitDepth
    \/ LoopExit
    \/ \E u \in Urls : TaskStart(u)
    \/ \E u \in Urls, r \in PdfResponses : TaskDownload(u, r)
    \/ \E u \in Urls, r \in PageResponses \cup OfficeResponses : TaskScrape(u, r)
    \/ \E u \in Urls : TaskStore(u)
    \/ \E u \in Urls : TaskReturn(u)
    \/ PoolJoined
    \/ FindLinksNone
    \/ FindLinksSome

Spec == Init /\ [][Next]_vars

\* The run under scheduling: the main thread and the worker threads are
\* scheduled by the operating system and every fetch returns, so a step that
\* is possible is eventually taken.
FairSpec == Spec /\ WF_vars(Next)

(***************************************************************************)
(* Properties.                                                             *)
(***************************************************************************)
Done == pc = "done"

\* the task <<u, d>> has run to its end
Executed(u, d) == \E o \in outcomes : o.url = u /\ o.depth = d

\* the pages of depth d that were scraped with success
ScrapedPages(d) ==
    {o.url : o \in {x \in outcomes : x.depth = d /\ x.kind = "Page" /\ x.status = "Success"}}

\* an anchor that generic link scanning keeps as a page to crawl
CrawlTarget(l) ==
    /\ Scheme(l) \in {"http", "https"}
    /\ Fragment(l) = ""
    /\ EndsWith(Netloc(l), <<"gov", ".", "uk">>)
    /\ \A ext \in NonHtmlExtensions : ~ EndsWith(Path(l), <<".", ext>>)

\* C1: over a full run at most one task is executed for a URL, across all
\* depths and whatever pages link to it.
C1_OneTaskPerUrl ==
    \A o1, o2 \in outcomes : o1.url = o2.url => o1.depth = o2.depth

\* C2: a URL that has been scheduled is in the claim set from the moment it
\* is scheduled (the claim test and the marking are one step).
C2_ScheduledIsClaimed ==
    \A s \in submitted : s[1] \in processed_urls

\* C3: every document link of the attachment sections of a successfully
\* processed page has been submitted for download when the run ends,
\* whatever the depth of the page.
C3_DocumentsSubmitted ==
    Done =>
        \A o \in outcomes :
            (o.kind = "Page" /\ o.status = "Success") =>
                \A l \in web[o.url].attachments : \E s \in submitted : s[1] = l

\* C4: with --crawl and --max-depth k, no Page task of depth > k is submitted
\* or executed.
C4_DepthCeiling ==
    args.crawl =>
        /\ \A s \in submitted : ~ IsPdf(s[1]) => s[2] <= args.max_depth
        /\ \A o \in outcomes : o.kind = "Page" => o.depth <= args.max_depth

\* C4 witness: the run ended, and a page at the maximum depth k >= 1 was scraped
\* whose content has a link that generic scanning keeps.
C4_Witness ==
    /\ Done
    /\ args.crawl
    /\ args.max_depth >= 1
    /\ \E u \in ScrapedPages(args.max_depth) :
          \E l \in web[u].anchors : CrawlTarget(l)

\* C5: without --crawl, whatever --max-depth, every seed URL is processed and
\* every Page task is a seed at depth 0: no sub-link is ever submitted.
C5_NoCrawlNoExpansion ==
    ~ args.crawl =>
        /\ \A s \in submitted :
              ~ IsPdf(s[1]) => (s[2] = 0 /\ s[1] \in initial_urls_to_scrape)
        /\ (Done /\ ~ config_error) =>
              \A u \in initial_urls_to_scrape : Executed(u, 0)

\* C5 witness: a run without --crawl and with --max-depth >= 1 ended after a
\* seed page was scraped whose content has a link that scanning would keep.
C5_Witness ==
    /\ Done
    /\ ~ args.crawl
    /\ args.max_depth >= 1
    /\ \E u \in ScrapedPages(0) : \E l \in web[u].anchors : CrawlTarget(l)

\* C6: with --same-domain, a URL is scheduled at depth d+1 only on account of
\* a page of depth d of its own host, so a sub-link found only on pages of
\* another host is not scheduled; without the flag, a sub-link on another
\* host that ends with gov.uk, found on a page below the depth ceiling, is
\* scheduled at the next depth.
C6_DomainFilter ==
    /\ args.same_domain =>
          \A s \in submitted :
              s[2] >= 1 =>
                  \E p \in ScrapedPages(s[2] - 1) :
                      /\ Netloc(p) = Netloc(s[1])
                      /\ s[1] \in web[p].anchors \cup web[p].attachments
    /\ (~ args.same_domain /\ args.crawl /\ Done) =>
          \A d \in 0..(args.max_depth - 1) :
              \A p \in ScrapedPages(d) :
                  \A l \in web[p].anchors :
                      (CrawlTarget(l) /\ Netloc(l) # Netloc(p))
                          => <<l, d + 1>> \in submitted

\* C6 witness: with --same-domain, a run ended in which a page below the
\* depth ceiling was scraped that links to a gov.uk page of another host.
C6_Witness ==
    /\ Done
    /\ args.same_domain
    /\ args.crawl
    /\ \E d \in 0..(args.max_depth - 1) :
          \E p \in ScrapedPages(d) :
              \E l \in web[p].anchors : CrawlTarget(l) /\ Netloc(l) # Netloc(p)

\* C7: the run is complete only when no task is executing or pending: every
\* future is done, every submitted task has run to its end, and the URLs
\* found for the next depth were either run or are beyond the depth ceiling.
C7_CompleteOnlyWhenQuiescent ==
    Done =>
        /\ \A u \in DOMAIN task : task[u] = "done"
        /\ processed_urls_lock = "free"
        /\ \A s \in submitted : Executed(s[1], s[2])
        /\ \A u \in urls_to_process_this_depth :
              Executed(u, current_depth) \/ current_depth > EffectiveMaxDepth(args)

\* C7 witness: the run ended after a follow-up task (depth 1) was executed.
C7_Witness ==
    /\ Done
    /\ \E o \in outcomes : o.depth = 1

C9_MissingFeedFileFails ==
    (Done /\ args.feed_file.state \in {"missing", "unreadable"}) => exit_status # 0

C11_SummaryCountsClaimed ==
    (Done /\ ~ config_error) =>
        SummaryTotal = Cardinality({s[1] : s \in submitted})

\* C12: a page that was fetched and extracted but whose output file could not
\* be written is recorded as Failed, and its document links and sub-links are
\* passed on to link finding as if the write had succeeded.
C12_WriteFailureKeepsLinks ==
    pc = "find_links" =>
        \A u \in urls_to_process_this_depth :
            web[u].status = "write_error" =>
                /\ \E o \in outcomes :
                      o.url = u /\ o.depth = current_depth /\ o.status = "Failed"
                /\ \A l \in web[u].attachments \cup web[u].anchors :
                      DomainAllows(l, u) => l \in NextUrlsToProcess


\* the extensions of the files that are to be downloaded as binary documents
BinaryAllowList == {"pdf", "doc", "docx", "xls", "xlsx"}

HasBinaryExtension(u) == \E ext \in BinaryAllowList : EndsWith(Path(u), <<".", ext>>)

\* l is a link of the attachment sections of a page scraped at depth d
AttachmentOf(l, d) == \E p \in ScrapedPages(d) : l \in web[p].attachments

\* C13: a link found in the attachment sections of a page, whose extension is
\* pdf, doc, docx, xls or xlsx, is executed as a Document task and never as an
\* HTML Page.
C13_AttachmentsAreDocuments ==
    \A o \in outcomes :
        (o.depth >= 1 /\ AttachmentOf(o.url, o.depth - 1) /\ HasBinaryExtension(o.url))
            => o.kind = "Document"

\* C14: a Document task produces no follow-up work: every task of depth d+1
\* is submitted on account of a page of depth d that is not a document and was
\* scraped with success, and links to it.
C14_DocumentsAreLeaves ==
    \A s \in submitted :
        s[2] >= 1 =>
            \E p \in ScrapedPages(s[2] - 1) :
                /\ ~ EndsWith(Path(p), <<".", "pdf">>)
                /\ s[1] \in web[p].anchors \cup web[p].attachments

\* C14 witness: the run ended after a document was downloaded with success at
\* a depth below the ceiling, where follow-up work could still be submitted.
C14_Witness ==
    /\ Done
    /\ \E o \in outcomes :
          /\ o.kind = "Document"
          /\ o.status = "Success"
          /\ o.depth < EffectiveMaxDepth(args)

\* C15: a URL scheduled on account of generic sub-link scanning (not as an
\* attachment) has scheme http or https, no fragment, a host that ends with
\* gov.uk and a path extension outside the denylist of non-page formats.
C15_ScheduledSubLinksPassFilter ==
    \A s \in submitted :
        (s[2] >= 1 /\ ~ AttachmentOf(s[1], s[2] - 1)) => CrawlTarget(s[1])


\* C16: at every moment of the crawl at most --workers tasks are running in
\* the pool (fetching, or storing what they fetched).
C16_WorkerBound == Cardinality(Running) <= args.workers

\* C16 witness: every worker of the pool is busy and a task is still queued.
C16_Witness ==
    /\ pc = "pool"
    /\ Cardinality(Running) = args.workers
    /\ \E u \in DOMAIN task : task[u] = "queued"

\* C17: every run eventually ends, whatever the seeds, the links between the
\* pages (cycles included) and --max-depth, when every fetch returns.
C17_RunTerminates == <>Done

\* C17 witness: a crawl ended although the links form a cycle: a URL was
\* executed at two depths.
C17_Witness ==
    /\ Done
    /\ args.crawl
    /\ \E o1, o2 \in outcomes : o1.url = o2.url /\ o1.depth < o2.depth

\* the links that link finding gets from a URL, as a function of its answer
LinksOf(p) ==
    IF IsPdf(p) \/ web[p].status # "ok" THEN {}
    ELSE {l \in DocumentUrls(web[p])
                 \cup (IF args.crawl THEN find_sub_links(p, web[p].anchors) ELSE {}) :
             DomainAllows(l, p)}

\* the batch of depth d as a function of the seeds, the configuration and the
\* answers of the URLs
RECURSIVE Batch(_)
Batch(d) ==
    IF d = 0 THEN initial_urls_to_scrape
    ELSE UNION {LinksOf(p) : p \in Batch(d - 1)}

ExpectedSubmitted ==
    {s \in Urls \X (0..EffectiveMaxDepth(args)) : s[1] \in Batch(s[2])}

\* C18: the tasks of a run that ended are a function of the seeds, the
\* configuration and the links extracted from each page: whatever the
\* order in which the worker tasks completed, the same <<URL, depth>> were
\* submitted, the same URLs were processed, and the claim set has the same size.
C18_Deterministic ==
    (Done /\ ~ config_error) =>
        /\ submitted = ExpectedSubmitted
        /\ {<<o.url, o.depth>> : o \in outcomes} = ExpectedSubmitted
        /\ processed_urls = {}

\* C18 witness: a run with two workers ended in which two pages of the same
\* depth, below the ceiling, were scraped with success and have different links.
C18_Witness ==
    /\ Done
    /\ args.workers >= 2
    /\ \E d \in 0..(EffectiveMaxDepth(args) - 1) :
          \E p1, p2 \in ScrapedPages(d) :
              /\ LinksOf(p1) # {}
              /\ LinksOf(p2) # {}
              /\ LinksOf(p1) # LinksOf(p2)

\* C19: once a task has been submitted, every distinct seed URL is claimed and
\* has been submitted as a task of depth 0, the tasks of depth 0 are the seeds,
\* and no task of a depth > 0 exists before that.
C19_Seeding ==
    submitted # {} =>
        /\ \A u \in initial_urls_to_scrape :
              <<u, 0>> \in submitted /\ u \in processed_urls
        /\ \A s \in submitted : s[2] = 0 => s[1] \in initial_urls_to_scrape

\* C20: a task that is doing its network and disk I/O does not hold
\* processed_urls_lock; the lock is held only by a task that is storing its
\* result in scrape_results.
C20_NoIoUnderLock ==
    /\ \A u \in DOMAIN task : task[u] = "io" => processed_urls_lock # u
    /\ processed_urls_lock # "free" =>
          /\ processed_urls_lock \in DOMAIN task
          /\ task[processed_urls_lock] = "locked"

\* C20 witness: one task holds the lock while another is doing its I/O.
C20_Witness ==
    \E u, v \in DOMAIN task :
        /\ task[u] = "locked"
        /\ processed_urls_lock = u
        /\ task[v] = "io"


\* C21: the crawl goes by depth stages separated by a barrier: while a task of
\* some depth is submitted, every task of a lower depth has run to its end; the
\* tasks that are queued or running are those of the current depth; and link
\* finding for the next depth runs only when every future of the depth is done.
C21_BarrierStaging ==
    /\ \A s1, s2 \in submitted : s1[2] < s2[2] => Executed(s1[1], s1[2])
    /\ \A s \in submitted :
          ~ Executed(s[1], s[2]) =>
              (s[2] = current_depth /\ pc = "pool" /\ s[1] \in DOMAIN task)
    /\ pc \in {"find_links", "loop_test"} =>
          \A u \in DOMAIN task : task[u] = "done"

\* C21 witness: a task of depth 1 is running, after a depth 0 of two tasks.
C21_Witness ==
    /\ pc = "pool"
    /\ current_depth >= 1
    /\ Running # {}
    /\ Cardinality({s \in submitted : s[2] = 0}) >= 2


\* C22: with --same-domain, a URL scheduled at depth >= 1, be it a sub-link or
\* an attachment document, was found on a page of the depth before that has
\* its host; and a document link found only on pages of another host is
\* dropped: no task is submitted for it at the next depth.
C22_SameDomainDocuments ==
    args.same_domain =>
        /\ \A s \in submitted :
              s[2] >= 1 =>
                  \E p \in ScrapedPages(s[2] - 1) :
                      /\ Netloc(p) = Netloc(s[1])
                      /\ (s[1] \in web[p].attachments \/ s[1] \in web[p].anchors)
        /\ \A o \in outcomes :
              (o.kind = "Page" /\ o.status = "Success") =>
                  \A l \in web[o.url].attachments :
                      (/\ Netloc(l) # Netloc(o.url)
                       /\ \A p \in ScrapedPages(o.depth) :
                             l \in web[p].attachments \cup web[p].anchors
                                 => Netloc(p) # Netloc(l))
                          => <<l, o.depth + 1>> \notin submitted

\* C22 witness: with --same-domain, a run ended in which a page below the
\* depth ceiling was scraped whose attachment section links to a document on
\* another host.
C22_Witness ==
    /\ Done
    /\ args.same_domain
    /\ \E d \in 0..(EffectiveMaxDepth(args) - 1) :
          \E p \in ScrapedPages(d) :
              \E l \in web[p].attachments : Netloc(l) # Netloc(p)


\* a worker writes scrape_results in this step: it has just taken the lock,
\* holds it after the step, and only its own entry is new
WorkerWrite ==
    /\ pc = "pool"
    /\ processed_urls_lock = "free"
    /\ processed_urls_lock' \in DOMAIN task
    /\ task'[processed_urls_lock'] = "locked"
    /\ DOMAIN scrape_results' = DOMAIN scrape_results \cup {processed_urls_lock'}
    /\ \A v \in DOMAIN scrape_results \ {processed_urls_lock'} :
          scrape_results'[v] = scrape_results[v]

\* the main thread reads or clears scrape_results here: no future is queued or
\* running, and no worker holds the lock
MainAlone ==
    /\ \A u \in DOMAIN task : task[u] = "done"
    /\ processed_urls_lock = "free"

\* C23: scrape_results is never accessed by two threads at once without the
\* lock: a step that changes it is either the write of a worker that holds
\* processed_urls_lock, or the clearing by the main thread while no worker task
\* is running; the main thread reads it (link finding) only while no worker
\* task is running; and at most one worker is in the locked section.
C23_ScrapeResultsDiscipline ==
    /\ [](pc = "find_links" => MainAlone)
    /\ [](Cardinality({u \in DOMAIN task : task[u] = "locked"}) <= 1)
    /\ [][scrape_results' # scrape_results =>
             (WorkerWrite \/ (pc = "find_links" /\ MainAlone))]_vars

\* C23 witness: a worker holds the lock, its result is in scrape_results, and
\* another worker that has fetched its page is waiting for the lock.
C23_Witness ==
    \E u, v \in DOMAIN task :
        /\ task[u] = "locked"
        /\ processed_urls_lock = u
        /\ u \in DOMAIN scrape_results
        /\ task[v] = "want_lock"


=============================================================================
